---------------------------- MODULE Spec2Model ----------------------------
(***************************************************************************)
(* Model of src/main.py: a batch utility that extracts PDF URLs from a     *)
(* text, downloads each one into PDFs/, then scans PDFs/ for .pdf files,   *)
(* deletes the ones the PDF parser rejects and reports file names that     *)
(* contain an uppercase letter.                                            *)
(*                                                                         *)
(* Strings are sequences of one-character strings, so that parsing,        *)
(* sanitising and matching are computed character by character.            *)
(***************************************************************************)
EXTENDS Integers, Sequences, FiniteSets

VARIABLES
    pc,              \* position of the single control flow
    text,            \* main: read_text, the source text
    pdf_urls,        \* main: the list returned by extract_pdf_urls
    spans,           \* positions <<first, last>> in text of each element of pdf_urls
    idx,             \* main: number of URLs whose download call has returned
    pdf_url,         \* download_pdf: its argument
    filename,        \* download_pdf: url_to_filename(pdf_url)
    filename2,       \* url_to_filename applied to filename (sanitizer runs only)
    local_file_path, \* download_pdf: PDFs/<filename>
    response,        \* download_pdf: status of the response requests.get returned
    stream,          \* download_pdf: chunks of the response body not yet read
    fs,              \* the disk: absolute path |-> bytes of each regular file
    fs0,             \* the disk when the run started
    fs_call,         \* the disk when the current download_pdf call started
    dirs,            \* the directories that exist on disk
    calls,           \* history: the URL of every download_pdf call, in order
    returned,        \* history: number of download_pdf calls that have returned
    reqs,            \* history: every requests.get issued, in order
    raised,          \* history: every exception raised inside download_pdf
    files,           \* main: the list returned by the directory scanner
    fs_scan,         \* the disk when the scanner ran
    fidx,            \* main: number of scanned files already processed
    verdict,         \* history: validate_pdf_file's result for each processed file
    notices          \* history: files reported with the uppercase notice

vars == <<pc, text, pdf_urls, spans, idx, pdf_url, filename, filename2,
          local_file_path, response, stream, fs, fs0, fs_call, dirs, calls,
          returned, reqs, raised, files, fs_scan, fidx, verdict, notices>>

---------------------------------------------------------------------------
(* Characters and strings                                                  *)

LowerSeq == <<"a","b","c","d","e","f","g","h","i","j","k","l","m",
              "n","o","p","q","r","s","t","u","v","w","x","y","z">>
UpperSeq == <<"A","B","C","D","E","F","G","H","I","J","K","L","M",
              "N","O","P","Q","R","S","T","U","V","W","X","Y","Z">>

Lower == {LowerSeq[k] : k \in 1..26}
Upper == {UpperSeq[k] : k \in 1..26}
Digit == {"0","1","2","3","4","5","6","7","8","9"}

\* str.isupper() of one character
isupper(c) == c \in Upper

\* str.lower() of one character
lower_char(c) ==
    IF c \in Upper THEN LowerSeq[CHOOSE k \in 1..26 : UpperSeq[k] = c] ELSE c

\* str.lower()
lower(s) == [k \in 1..Len(s) |-> lower_char(s[k])]

\* the regex class \s
IsSpace(c) == c \in {" ", "\t", "\n", "\r"}

\* the regex class \w
IsWord(c) == c \in Lower \cup Upper \cup Digit \cup {"_"}

\* s[a..b] with Python's clipping to the ends of s: empty when nothing is left
Slice(s, a, b) ==
    LET lo == IF a < 1 THEN 1 ELSE a
        hi == IF b > Len(s) THEN Len(s) ELSE b
    IN  IF lo > hi THEN <<>> ELSE SubSeq(s, lo, hi)

\* lit occurs in s starting at position k
StartsWithAt(s, lit, k) ==
    /\ k >= 1
    /\ k + Len(lit) - 1 <= Len(s)
    /\ \A n \in 1..Len(lit) : s[k + n - 1] = lit[n]

\* str.endswith
endswith(s, suffix) == StartsWithAt(s, suffix, Len(s) - Len(suffix) + 1)

\* str.find(c, start): least position >= from holding c, 0 when there is none
find(s, c, from) ==
    LET hits == {k \in from..Len(s) : k >= 1 /\ s[k] = c}
    IN  IF hits = {} THEN 0 ELSE CHOOSE k \in hits : \A m \in hits : k <= m

\* str.rfind(c): greatest position holding c, 0 when there is none
rfind(s, c) ==
    LET hits == {k \in 1..Len(s) : s[k] = c}
    IN  IF hits = {} THEN 0 ELSE CHOOSE k \in hits : \A m \in hits : k >= m

\* str.lstrip(chars)
RECURSIVE lstrip(_, _)
lstrip(s, chars) ==
    IF s # <<>> /\ s[1] \in chars THEN lstrip(Tail(s), chars) ELSE s

\* concatenation of a sequence of strings
RECURSIVE Concat(_)
Concat(ss) == IF ss = <<>> THEN <<>> ELSE ss[1] \o Concat(Tail(ss))

DOT_PDF == <<".","p","d","f">>

---------------------------------------------------------------------------
(* Filename Sanitizer: url_to_filename and the library calls it makes      *)

\* urllib.parse: characters a scheme may hold
scheme_chars == Lower \cup Upper \cup Digit \cup {"+", "-", "."}

\* urllib.parse: schemes whose last path segment may carry ;parameters
uses_params ==
    { <<>>, <<"f","t","p">>, <<"h","d","l">>,
      <<"p","r","o","s","p","e","r","o">>, <<"h","t","t","p">>,
      <<"i","m","a","p">>, <<"h","t","t","p","s">>,
      <<"s","h","t","t","p">>, <<"r","t","s","p">>,
      <<"r","t","s","p","s">>, <<"r","t","s","p","u">>, <<"s","i","p">>,
      <<"s","i","p","s">>, <<"m","m","s">>, <<"s","f","t","p">>,
      <<"t","e","l">> }

\* urllib.parse._splitnetloc(url, 2): the netloc ends at the first of / ? #
splitnetloc(url) ==
    LET ends == {k \in 3..Len(url) : url[k] \in {"/", "?", "#"}}
        delim == IF ends = {} THEN Len(url) + 1
                 ELSE CHOOSE k \in ends : \A m \in ends : k <= m
    IN  [netloc |-> Slice(url, 3, delim - 1), rest |-> Slice(url, delim, Len(url))]

\* urllib.parse.urlsplit
urlsplit(url0) ==
    LET url1 == lstrip(url0, {" ", "\t", "\n", "\r"})
        url2 == SelectSeq(url1, LAMBDA c : c \notin {"\t", "\r", "\n"})
        i    == find(url2, ":", 1)
        hasScheme ==
            /\ i > 1
            /\ url2[1] \in Lower \cup Upper
            /\ \A k \in 1..(i - 1) : url2[k] \in scheme_chars
        scheme == IF hasScheme THEN lower(Slice(url2, 1, i - 1)) ELSE <<>>
        url3 == IF hasScheme THEN Slice(url2, i + 1, Len(url2)) ELSE url2
        hasNetloc == StartsWithAt(url3, <<"/","/">>, 1)
        netloc == IF hasNetloc THEN splitnetloc(url3).netloc ELSE <<>>
        url4 == IF hasNetloc THEN splitnetloc(url3).rest ELSE url3
        h    == find(url4, "#", 1)
        url5 == IF h > 0 THEN Slice(url4, 1, h - 1) ELSE url4
        q    == find(url5, "?", 1)
        url6 == IF q > 0 THEN Slice(url5, 1, q - 1) ELSE url5
    IN  [scheme |-> scheme, netloc |-> netloc, path |-> url6]

\* urllib.parse._splitparams: the path without the ;parameters of its last segment
splitparams(url) ==
    LET slash == rfind(url, "/")
        i == IF slash > 0 THEN find(url, ";", slash) ELSE find(url, ";", 1)
    IN  IF i = 0 THEN url ELSE Slice(url, 1, i - 1)

\* urllib.parse.urlparse(url).path
urlparse_path(url) ==
    LET r == urlsplit(url)
    IN  IF r.scheme \in uses_params /\ find(r.path, ";", 1) > 0
        THEN splitparams(r.path)
        ELSE r.path

\* os.path.basename: what follows the last /
basename(path) == Slice(path, rfind(path, "/") + 1, Len(path))

\* os.path.splitext: the extension starts at the last dot of the last segment,
\* unless only dots precede it there
splitext(p) ==
    LET sepIndex == rfind(p, "/")
        dotIndex == rfind(p, ".")
        isExt ==
            /\ dotIndex > sepIndex
            /\ \E k \in (sepIndex + 1)..(dotIndex - 1) : p[k] # "."
    IN  IF isExt
        THEN [name |-> Slice(p, 1, dotIndex - 1), ext |-> Slice(p, dotIndex, Len(p))]
        ELSE [name |-> p, ext |-> <<>>]

\* re.sub(r"[^a-zA-Z0-9_-]", "_", name)
sanitize(name) ==
    [k \in 1..Len(name) |->
        IF name[k] \in Lower \cup Upper \cup Digit \cup {"_", "-"}
        THEN name[k] ELSE "_"]

\* filename after "if not filename.endswith('.pdf'): filename += '.pdf'"
ensure_pdf(fn) == IF endswith(fn, DOT_PDF) THEN fn ELSE fn \o DOT_PDF

url_to_filename(url) ==
    LET fn == ensure_pdf(basename(urlparse_path(url)))
        parts == splitext(fn)
    IN  lower(sanitize(parts.name) \o parts.ext)

---------------------------------------------------------------------------
(* URL Extractor: re.findall(r"https?://[^\s]+?\.pdf\b", text)             *)

HTTP == <<"h","t","t","p">>
COLON_SLASHES == <<":","/","/">>

\* "https?://" matched at position i: the position after it, 0 when it does not
\* match. The optional s is tried first; without it "://" must follow "http".
scheme_end(t, i) ==
    IF ~StartsWithAt(t, HTTP, i) THEN 0
    ELSE IF StartsWithAt(t, <<"s">>, i + 4) /\ StartsWithAt(t, COLON_SLASHES, i + 5)
         THEN i + 8
    ELSE IF StartsWithAt(t, COLON_SLASHES, i + 4) THEN i + 7
    ELSE 0

\* a pattern without the \b
no_word_boundary(t, e) == TRUE

\* \b after the f at position e: the next character is not a word character
word_boundary(t, e) == e = Len(t) \/ ~IsWord(t[e + 1])

\* the ends e at which "[^\s]+?\.pdf\b" can stop when it starts at position b
pdf_ends(t, b) ==
    {e \in (b + 4)..Len(t) :
        /\ StartsWithAt(t, DOT_PDF, e - 3)
        /\ word_boundary(t, e)
        /\ \A k \in b..(e - 4) : ~IsSpace(t[k])}

\* the end a greedy + would settle on
greedy_end(ends) == CHOOSE e \in ends : \A m \in ends : e >= m

\* the end the lazy +? settles on: it grows one character at a time
lazy_end(ends) == CHOOSE e \in ends : \A m \in ends : e <= m

\* the whole pattern tried at position i: the last position of the match, 0
\* when there is none
match_end(t, i) ==
    LET b == scheme_end(t, i)
    IN  IF b = 0 \/ pdf_ends(t, b) = {} THEN 0 ELSE lazy_end(pdf_ends(t, b))

\* findall's scan: the leftmost match from pos on, then on from its end
RECURSIVE findall_from(_, _)
findall_from(t, pos) ==
    IF pos > Len(t) THEN <<>>
    ELSE LET e == match_end(t, pos)
         IN  IF e = 0 THEN findall_from(t, pos + 1)
             ELSE <<<<pos, e>>>> \o findall_from(t, e + 1)

\* the <<first, last>> positions of the matches, in scan order
findall_spans(t) == findall_from(t, 1)

extract_pdf_urls(t) ==
    LET sp == findall_spans(t)
    IN  [k \in 1..Len(sp) |-> Slice(t, sp[k][1], sp[k][2])]

---------------------------------------------------------------------------
(* The disk, the network and the PDF parser                                *)

\* the working directory of the run
CWD == <<"/","W">>

\* download_pdf: save_folder
SAVE_FOLDER == <<"P","D","F","s">>

\* main: the directory and the extension handed to the scanner
SCAN_ROOT == <<".","/","P","D","F","s">>

\* os.path.join of two parts
path_join(a, b) ==
    IF StartsWithAt(b, <<"/">>, 1) THEN b
    ELSE IF a = <<>> \/ endswith(a, <<"/">>) THEN a \o b
    ELSE a \o <<"/">> \o b

\* os.path.abspath of a path with no .. in it
abspath(p) ==
    IF StartsWithAt(p, <<"/">>, 1) THEN p
    ELSE IF StartsWithAt(p, <<".","/">>, 1)
         THEN path_join(CWD, Slice(p, 3, Len(p)))
    ELSE path_join(CWD, p)

\* a download_pdf that never finds the file
check_file_exists_never(disk, system_path) == FALSE

\* os.path.isfile
check_file_exists(disk, system_path) == abspath(system_path) \in DOMAIN disk

\* an open that creates nothing until the first write
open_wb_lazy(disk, path) == disk

\* open(path, "wb"): the file exists and is empty
open_wb(disk, path) ==
    [p \in DOMAIN disk \cup {abspath(path)} |->
        IF p = abspath(path) THEN <<>> ELSE disk[p]]

\* pdf_file.write(chunk) for a chunk that passed "if chunk"
file_write(disk, path, chunk) ==
    [p \in DOMAIN disk \cup {abspath(path)} |->
        IF p = abspath(path)
        THEN (IF p \in DOMAIN disk THEN disk[p] ELSE <<>>) \o <<chunk>>
        ELSE disk[p]]

\* os.remove
remove_system_file(disk, system_path) ==
    [p \in DOMAIN disk \ {abspath(system_path)} |-> disk[p]]

\* the exception classes download_pdf's except clause names
RequestException ==
    {"ConnectionError", "Timeout", "HTTPError", "ChunkedEncodingError"}

\* an except clause that names the transport errors only
caught_transport_only(exc) == exc \in {"ConnectionError", "Timeout"}

\* except requests.exceptions.RequestException
caught_by_download(exc) == exc \in RequestException

\* where control goes when exc is raised inside download_pdf's try
after_raise(exc) == IF caught_by_download(exc) THEN "dl_return" ELSE "crashed"

\* the contents the PDF parser can open; every other content (zero bytes, a
\* truncated document, junk) makes fitz.open raise RuntimeError
Documents == {<<"pdf0">>, <<"pdf1a", "pdf1b">>, <<"old2">>}

\* fitz.open raises RuntimeError
fitz_open_raises(content) == content \notin Documents

\* doc.page_count of a document fitz.open returned
page_count(content) ==
    CASE content = <<"pdf0">>           -> 0
      [] content = <<"pdf1a", "pdf1b">> -> 1
      [] content = <<"old2">>           -> 2

\* a validator that never looks at the page count
validate_without_page_count(disk, file_path) ==
    ~fitz_open_raises(disk[abspath(file_path)])

validate_pdf_file(disk, file_path) ==
    LET content == disk[abspath(file_path)]
    IN  IF fitz_open_raises(content) THEN FALSE
        ELSE IF page_count(content) = 0 THEN FALSE
        ELSE TRUE

\* os.walk(system_path) filtered by file.endswith(extension), as absolute paths
walk_directory_and_extract_given_file_extension(disk, system_path, extension) ==
    {p \in DOMAIN disk :
        /\ StartsWithAt(p, abspath(system_path) \o <<"/">>, 1)
        /\ endswith(basename(p), extension)}

\* the orders in which the walk can return a set of files
Orders(S) ==
    {o \in [1..Cardinality(S) -> S] :
        \A a, b \in 1..Cardinality(S) : a # b => o[a] # o[b]}

\* a check of the whole path instead of the base name
whole_path(path) == path

get_filename_and_extension(path) == basename(path)

check_upper_case_letter(content) == \E k \in 1..Len(content) : isupper(content[k])

\* a loop that walks the list from its end
next_url_reversed(urls, n) == urls[Len(urls) - n]

\* main: the element the for loop hands to download_pdf after n calls
next_url(urls, n) == urls[n + 1]

---------------------------------------------------------------------------
(* Inputs                                                                  *)

\* most URLs in a source text of a pipeline run
MaxUrls == 2

\* most pieces in a text handed to the extractor alone
MaxChunks == 5

\* most pieces in a URL handed to the sanitizer alone
MaxParts == 4

\* all sequences of at most n elements of S
SeqsUpTo(S, n) == UNION {[1..m -> S] : m \in 0..n}

\* the URLs a pipeline run's source text is made of; the second and the third
\* sanitize to the same file name
SourceUrls ==
    { <<"h","t","t","p",":","/","/","h","/","B",".","p","d","f">>,
      <<"h","t","t","p",":","/","/","h","/","a",".","p","d","f">>,
      <<"h","t","t","p","s",":","/","/","h","/","A",".","p","d","f">> }

\* the words of a line, separated by single spaces
RECURSIVE JoinWords(_)
JoinWords(ws) ==
    IF ws = <<>> THEN <<>>
    ELSE IF Len(ws) = 1 THEN ws[1]
    ELSE ws[1] \o <<" ">> \o JoinWords(Tail(ws))

\* the source texts of at most n URLs
SourceTexts(n) == {JoinWords(ws) : ws \in SeqsUpTo(SourceUrls, n)}

\* files that may be in PDFs/ before the run: the target of a source URL, and
\* a nested file whose base name holds an uppercase letter
OldPaths ==
    { <<"/","W","/","P","D","F","s","/","a",".","p","d","f">>,
      <<"/","W","/","P","D","F","s","/","o","/","Q",".","p","d","f">> }

\* their possible contents: a two-page document, junk
OldContents == {<<"old2">>, <<"junk">>}

InitialDisks == UNION {[S -> OldContents] : S \in SUBSET OldPaths}

\* the directories above a path
RECURSIVE ParentDirs(_)
ParentDirs(p) ==
    LET k == rfind(p, "/")
    IN  IF k <= 1 THEN {} ELSE {Slice(p, 1, k - 1)} \cup ParentDirs(Slice(p, 1, k - 1))

\* the directories of a disk's files
DirsOf(disk) == {CWD} \cup UNION {ParentDirs(p) : p \in DOMAIN disk}

\* the bodies a server may send, as the chunks iter_content yields: nothing, a
\* zero-page document, a one-page document in two chunks around an empty one
Bodies == { <<>>, <<"pdf0">>, <<"pdf1a", "", "pdf1b">> }

\* the pieces of the texts handed to the extractor alone
TextChunks ==
    { <<"h","t","t","p",":","/","/","a">>,
      <<"h","t","t","p","s",":","/","/","b">>,
      <<"h","t","t","p",":","/","/">>,
      <<".","p","d","f">>,
      <<"x">>, <<",">>, <<" ">> }

\* the strings made of at most n of the given pieces
Pieced(pieces, n) == {Concat(cs) : cs \in SeqsUpTo(pieces, n)}

\* the URLs handed to the sanitizer alone are this scheme and host followed
\* by pieces of UrlParts; none holds a square bracket, so urlparse raises for
\* none of them
URL_PREFIX == <<"h","t","t","p",":","/","/","h">>

UrlParts ==
    { <<"/">>, <<".">>, <<".","p","d","f">>, <<".","P","D","F">>,
      <<"a">>, <<"B">>, <<"7">>, <<" ">>, <<"-">>, <<"?">>, <<";">>, <<"#">>,
      <<":">> }

---------------------------------------------------------------------------
(* The run: main() and the functions it calls                              *)

InitCommon ==
    /\ pdf_urls = <<>>
    /\ spans = <<>>
    /\ idx = 0
    /\ filename = <<>>
    /\ filename2 = <<>>
    /\ local_file_path = <<>>
    /\ response = "none"
    /\ stream = <<>>
    /\ fs_call = fs
    /\ fs0 = fs
    /\ dirs = DirsOf(fs)
    /\ calls = <<>>
    /\ returned = 0
    /\ reqs = <<>>
    /\ raised = <<>>
    /\ files = <<>>
    /\ fs_scan = fs
    /\ fidx = 0
    /\ verdict = <<>>
    /\ notices = {}

Init ==
    /\ pc = "main_start"
    /\ text \in SourceTexts(MaxUrls)
    /\ fs \in InitialDisks
    /\ pdf_url = <<>>
    /\ InitCommon

\* main, lines 166-170: read the source text and extract its URLs
MainExtract ==
    /\ pc = "main_start"
    /\ pdf_urls' = extract_pdf_urls(text)
    /\ spans' = findall_spans(text)
    /\ pc' = "main_loop"
    /\ UNCHANGED <<text, idx, pdf_url, filename, filename2, local_file_path,
                   response, stream, fs, fs0, fs_call, dirs, calls, returned,
                   reqs, raised, files, fs_scan, fidx, verdict, notices>>

\* main, lines 171-173, and download_pdf, lines 66-73: the loop calls
\* download_pdf for the next URL; the folder is made and the path computed
DownloadCall ==
    /\ pc = "main_loop"
    /\ idx < Len(pdf_urls)
    /\ pdf_url' = next_url(pdf_urls, idx)
    /\ calls' = Append(calls, pdf_url')
    /\ dirs' = dirs \cup {abspath(SAVE_FOLDER)}
    /\ filename' = url_to_filename(pdf_url')
    /\ local_file_path' = path_join(SAVE_FOLDER, filename')
    /\ fs_call' = fs
    /\ pc' = "dl_check"
    /\ UNCHANGED <<text, pdf_urls, spans, idx, filename2, response, stream, fs,
                   fs0, returned, reqs, raised, files, fs_scan, fidx, verdict,
                   notices>>

\* download_pdf, lines 75-77: the file is there, nothing is fetched
DownloadSkip ==
    /\ pc = "dl_check"
    /\ check_file_exists(fs, local_file_path)
    /\ pc' = "dl_return"
    /\ UNCHANGED <<text, pdf_urls, spans, idx, pdf_url, filename, filename2,
                   local_file_path, response, stream, fs, fs0, fs_call, dirs,
                   calls, returned, reqs, raised, files, fs_scan, fidx, verdict,
                   notices>>

\* download_pdf, lines 79-81: requests.get fails in transport
RequestsGetFails ==
    /\ pc = "dl_check"
    /\ ~check_file_exists(fs, local_file_path)
    /\ reqs' = Append(reqs, [url |-> pdf_url, call |-> Len(calls), response |-> "error"])
    /\ raised' = Append(raised, [call |-> Len(calls), exc |-> "ConnectionError"])
    /\ pc' = after_raise("ConnectionError")
    /\ UNCHANGED <<text, pdf_urls, spans, idx, pdf_url, filename, filename2,
                   local_file_path, response, stream, fs, fs0, fs_call, dirs,
                   calls, returned, files, fs_scan, fidx, verdict, notices>>

\* download_pdf, lines 79-81: requests.get returns a response, whatever its status
RequestsGetResponds ==
    /\ pc = "dl_check"
    /\ ~check_file_exists(fs, local_file_path)
    /\ \/ /\ response' = "404"
          /\ stream' = <<>>
       \/ /\ response' = "200"
          /\ stream' \in Bodies
    /\ reqs' = Append(reqs, [url |-> pdf_url, call |-> Len(calls), response |-> response'])
    /\ pc' = "dl_status"
    /\ UNCHANGED <<text, pdf_urls, spans, idx, pdf_url, filename, filename2,
                   local_file_path, fs, fs0, fs_call, dirs, calls, returned,
                   raised, files, fs_scan, fidx, verdict, notices>>

\* download_pdf, line 82: raise_for_status raises on an error status
RaiseForStatus ==
    /\ pc = "dl_status"
    /\ response # "200"
    /\ raised' = Append(raised, [call |-> Len(calls), exc |-> "HTTPError"])
    /\ pc' = after_raise("HTTPError")
    /\ UNCHANGED <<text, pdf_urls, spans, idx, pdf_url, filename, filename2,
                   local_file_path, response, stream, fs, fs0, fs_call, dirs,
                   calls, returned, reqs, files, fs_scan, fidx, verdict, notices>>

\* download_pdf, lines 82-86: the status is fine and the file is opened for writing
OpenFile ==
    /\ pc = "dl_status"
    /\ response = "200"
    /\ fs' = open_wb(fs, local_file_path)
    /\ pc' = "dl_write"
    /\ UNCHANGED <<text, pdf_urls, spans, idx, pdf_url, filename, filename2,
                   local_file_path, response, stream, fs0, fs_call, dirs, calls,
                   returned, reqs, raised, files, fs_scan, fidx, verdict, notices>>

\* download_pdf, lines 87-91: one chunk is read; an empty one is not written
WriteChunk ==
    /\ pc = "dl_write"
    /\ stream # <<>>
    /\ fs' = IF Head(stream) # "" THEN file_write(fs, local_file_path, Head(stream))
             ELSE fs
    /\ stream' = Tail(stream)
    /\ UNCHANGED <<pc, text, pdf_urls, spans, idx, pdf_url, filename, filename2,
                   local_file_path, response, fs0, fs_call, dirs, calls, returned,
                   reqs, raised, files, fs_scan, fidx, verdict, notices>>

\* download_pdf, lines 87-89: the connection breaks while a chunk is read
StreamError ==
    /\ pc = "dl_write"
    /\ stream # <<>>
    /\ stream' = <<>>
    /\ raised' = Append(raised, [call |-> Len(calls), exc |-> "ChunkedEncodingError"])
    /\ pc' = after_raise("ChunkedEncodingError")
    /\ UNCHANGED <<text, pdf_urls, spans, idx, pdf_url, filename, filename2,
                   local_file_path, response, fs, fs0, fs_call, dirs, calls,
                   returned, reqs, files, fs_scan, fidx, verdict, notices>>

\* download_pdf, line 93: the body is written
Downloaded ==
    /\ pc = "dl_write"
    /\ stream = <<>>
    /\ pc' = "dl_return"
    /\ UNCHANGED <<text, pdf_urls, spans, idx, pdf_url, filename, filename2,
                   local_file_path, response, stream, fs, fs0, fs_call, dirs,
                   calls, returned, reqs, raised, files, fs_scan, fidx, verdict,
                   notices>>

\* download_pdf returns to main's loop
DownloadReturn ==
    /\ pc = "dl_return"
    /\ returned' = returned + 1
    /\ idx' = idx + 1
    /\ pdf_url' = <<>>
    /\ filename' = <<>>
    /\ local_file_path' = <<>>
    /\ response' = "none"
    /\ stream' = <<>>
    /\ fs_call' = fs
    /\ pc' = "main_loop"
    /\ UNCHANGED <<text, pdf_urls, spans, filename2, fs, fs0, dirs, calls, reqs,
                   raised, files, fs_scan, fidx, verdict, notices>>

\* main, lines 175-177: the loop is over and PDFs/ is scanned
MainScan ==
    /\ pc = "main_loop"
    /\ idx = Len(pdf_urls)
    /\ files' \in Orders(walk_directory_and_extract_given_file_extension(
                            fs, SCAN_ROOT, DOT_PDF))
    /\ fs_scan' = fs
    /\ pc' = "main_validate"
    /\ UNCHANGED <<text, pdf_urls, spans, idx, pdf_url, filename, filename2,
                   local_file_path, response, stream, fs, fs0, fs_call, dirs,
                   calls, returned, reqs, raised, fidx, verdict, notices>>

\* main, lines 179-184: the next file is validated, and removed when invalid
ValidateFile ==
    /\ pc = "main_validate"
    /\ fidx < Len(files)
    /\ LET pdf_file == files[fidx + 1]
           valid == validate_pdf_file(fs, pdf_file)
       IN  /\ verdict' = Append(verdict, valid)
           /\ fs' = IF valid = FALSE THEN remove_system_file(fs, pdf_file) ELSE fs
    /\ pc' = "main_upper"
    /\ UNCHANGED <<text, pdf_urls, spans, idx, pdf_url, filename, filename2,
                   local_file_path, response, stream, fs0, fs_call, dirs, calls,
                   returned, reqs, raised, files, fs_scan, fidx, notices>>

\* main, lines 185-191: the same file's base name is checked for uppercase
UpperCheck ==
    /\ pc = "main_upper"
    /\ LET pdf_file == files[fidx + 1]
       IN  notices' =
               IF check_upper_case_letter(get_filename_and_extension(pdf_file))
               THEN notices \cup {pdf_file} ELSE notices
    /\ fidx' = fidx + 1
    /\ pc' = "main_validate"
    /\ UNCHANGED <<text, pdf_urls, spans, idx, pdf_url, filename, filename2,
                   local_file_path, response, stream, fs, fs0, fs_call, dirs,
                   calls, returned, reqs, raised, files, fs_scan, verdict>>

\* main returns
MainDone ==
    /\ pc = "main_validate"
    /\ fidx = Len(files)
    /\ pc' = "done"
    /\ UNCHANGED <<text, pdf_urls, spans, idx, pdf_url, filename, filename2,
                   local_file_path, response, stream, fs, fs0, fs_call, dirs,
                   calls, returned, reqs, raised, files, fs_scan, fidx, verdict,
                   notices>>

Next ==
    \/ MainExtract
    \/ DownloadCall
    \/ DownloadSkip
    \/ RequestsGetFails
    \/ RequestsGetResponds
    \/ RaiseForStatus
    \/ OpenFile
    \/ WriteChunk
    \/ StreamError
    \/ Downloaded
    \/ DownloadReturn
    \/ MainScan
    \/ ValidateFile
    \/ UpperCheck
    \/ MainDone

Spec == Init /\ [][Next]_vars

---------------------------------------------------------------------------
(* The extractor alone, on texts made of TextChunks                        *)

InitExtract ==
    /\ pc = "main_start"
    /\ text \in Pieced(TextChunks, MaxChunks)
    /\ fs = <<>>
    /\ pdf_url = <<>>
    /\ InitCommon

NextExtract == MainExtract

SpecExtract == InitExtract /\ [][NextExtract]_vars

---------------------------------------------------------------------------
(* The sanitizer alone, on URLs made of UrlParts                           *)

InitSan ==
    /\ pc = "san_start"
    /\ text = <<>>
    /\ fs = <<>>
    /\ pdf_url \in {URL_PREFIX \o p : p \in Pieced(UrlParts, MaxParts)}
    /\ InitCommon

\* url_to_filename applied to a URL
Sanitize ==
    /\ pc = "san_start"
    /\ filename' = url_to_filename(pdf_url)
    /\ pc' = "san_once"
    /\ UNCHANGED <<text, pdf_urls, spans, idx, pdf_url, filename2,
                   local_file_path, response, stream, fs, fs0, fs_call, dirs,
                   calls, returned, reqs, raised, files, fs_scan, fidx, verdict,
                   notices>>

\* url_to_filename applied to its own result
Resanitize ==
    /\ pc = "san_once"
    /\ filename2' = url_to_filename(filename)
    /\ pc' = "san_twice"
    /\ UNCHANGED <<text, pdf_urls, spans, idx, pdf_url, filename,
                   local_file_path, response, stream, fs, fs0, fs_call, dirs,
                   calls, returned, reqs, raised, files, fs_scan, fidx, verdict,
                   notices>>

NextSan == Sanitize \/ Resanitize

SpecSan == InitSan /\ [][NextSan]_vars

---------------------------------------------------------------------------
(* Vocabulary of the properties                                            *)

\* control is inside a download_pdf call (or died in one)
InCall == pc \in {"dl_check", "dl_status", "dl_write", "dl_return", "crashed"}

\* the download loop is over
AfterLoop == pc \in {"main_validate", "main_upper", "done"}

\* the run has a next step: every position but the last has a step whose
\* condition holds
CanStep ==
    /\ pc \in {"main_start", "main_loop", "dl_check", "dl_status", "dl_write",
               "dl_return", "main_validate", "main_upper", "done"}
    /\ pc = "main_loop" => idx <= Len(pdf_urls)
    /\ pc = "dl_status" => response \in {"200", "404"}
    /\ pc = "main_validate" => fidx <= Len(files)
    /\ pc = "main_upper" => fidx < Len(files)

\* the file a URL is saved to
Target(u) == CWD \o <<"/">> \o SAVE_FOLDER \o <<"/">> \o url_to_filename(u)

\* the requests issued during the c-th download_pdf call
ReqsOfCall(c) == {k \in DOMAIN reqs : reqs[k].call = c}

\* the requests issued for URL u, in order
ReqsFor(u) == SelectSeq(reqs, LAMBDA r : r.url = u)

\* how often u occurs in the extracted list
Occurrences(u) == Cardinality({k \in DOMAIN pdf_urls : pdf_urls[k] = u})

\* no other extracted URL is saved to the file u is saved to
NoCollision(u) ==
    \A k \in DOMAIN pdf_urls : pdf_urls[k] # u => Target(pdf_urls[k]) # Target(u)

\* f matches ^[a-z0-9_-]+\.pdf$
SafeName(f) ==
    /\ Len(f) >= 5
    /\ \A k \in 1..4 : f[Len(f) - 4 + k] = DOT_PDF[k]
    /\ \A k \in 1..(Len(f) - 4) : f[k] \in Lower \cup Digit \cup {"_", "-"}

\* t[i..j] matches https?://[^\s]+\.pdf as a whole
IsPdfUrl(t, i, j) ==
    \E b \in {i + 7, i + 8} :
        /\ Slice(t, i, b - 1) \in { <<"h","t","t","p",":","/","/">>,
                                   <<"h","t","t","p","s",":","/","/">> }
        /\ b <= j - 4
        /\ Slice(t, j - 3, j) = DOT_PDF
        /\ \A k \in b..(j - 4) : t[k] \notin {" ", "\t", "\n", "\r"}

\* position j of t is followed by the end of t or by a non-word character
AtWordBoundary(t, j) ==
    j = Len(t) \/ t[j + 1] \notin Lower \cup Upper \cup Digit \cup {"_"}

\* the substrings of t, as <<first, last>>, that match the pattern as a whole
\* and end at a word boundary
PdfUrlsAt(t) ==
    {ij \in {k \in 1..Len(t) : t[k] = "h"} \X {k \in 1..Len(t) : t[k] = "f"} :
        IsPdfUrl(t, ij[1], ij[2]) /\ AtWordBoundary(t, ij[2])}

\* the substrings of t that match the pattern as a whole and are directly
\* followed by a punctuation character
PdfUrlsBeforePunctuation(t) ==
    {ij \in {k \in 1..Len(t) : t[k] = "h"} \X {k \in 1..Len(t) : t[k] = "f"} :
        /\ IsPdfUrl(t, ij[1], ij[2])
        /\ ij[2] < Len(t)
        /\ t[ij[2] + 1] \in {".", ",", ")", "/"}}

\* the base name of path f holds an uppercase letter
BaseHasUpper(f) ==
    \E m \in 1..Len(f) :
        /\ f[m] \in Upper
        /\ \A n \in m..Len(f) : f[n] # "/"

\* the parser rejects the content, or finds no page in it
Corrupt(content) ==
    IF content \in Documents THEN page_count(content) = 0 ELSE TRUE

---------------------------------------------------------------------------
(* C1..C10                                                                 *)

\* C1: when a regular file exists at PDFs/<url_to_filename(u)> as
\* download_pdf(u) is called, the call issues no request, only checks and
\* returns, and leaves every file on disk as it was.
C1_SkipLeavesDiskAndNetwork ==
    (InCall /\ Target(pdf_url) \in DOMAIN fs_call) =>
        /\ pc \in {"dl_check", "dl_return"}
        /\ fs = fs_call
        /\ ReqsOfCall(Len(calls)) = {}

\* a call that found its file on disk is about to return
C1_Witness ==
    /\ pc = "dl_return"
    /\ Target(pdf_url) \in DOMAIN fs_call

\* C2: a transport failure, an HTTP error status or a broken stream never
\* aborts the run: no exception leaves download_pdf, no call issues a second
\* request, every call that raised had issued its one request, the run is
\* never stuck before main returns, and once the loop is over every extracted
\* URL has had its call and every call has returned.
C2_FailedDownloadNeverAborts ==
    /\ pc # "crashed"
    /\ \A c \in 1..Len(calls) : Cardinality(ReqsOfCall(c)) <= 1
    /\ \A k \in DOMAIN raised : Cardinality(ReqsOfCall(raised[k].call)) = 1
    /\ CanStep
    /\ AfterLoop => calls = pdf_urls /\ returned = Len(pdf_urls)

\* the first download failed, a later URL had its call, and main returned
C2_Witness ==
    /\ pc = "done"
    /\ Len(calls) >= 2
    /\ \E k \in DOMAIN raised : raised[k].call = 1

\* C3 as stated: a URL that occurs twice, with no file at its target before
\* the run, gets exactly one request whatever the network returns.
C3_Original ==
    AfterLoop =>
        \A k \in DOMAIN pdf_urls :
            (Occurrences(pdf_urls[k]) = 2 /\ Target(pdf_urls[k]) \notin DOMAIN fs0)
                => Len(ReqsFor(pdf_urls[k])) = 1

\* C3 amended: for a URL that occurs twice, with no file at its target before
\* the run and no other URL saved to the same file, exactly one request is made
\* when the first request's response has a success status (the file then
\* exists, whatever the body), and exactly two when the first request fails in
\* transport or with an error status (no file is created).
C3_OneRequestIffFirstResponseOk ==
    AfterLoop =>
        \A k \in DOMAIN pdf_urls :
            LET u == pdf_urls[k]
                rs == ReqsFor(u)
            IN  (Occurrences(u) = 2 /\ Target(u) \notin DOMAIN fs0 /\ NoCollision(u))
                    => /\ Len(rs) \in {1, 2}
                       /\ Len(rs) = 1 <=> rs[1].response = "200"

\* a URL occurring twice was requested once and then skipped
C3_Witness ==
    /\ pc = "done"
    /\ \E k \in DOMAIN pdf_urls :
          /\ Occurrences(pdf_urls[k]) = 2
          /\ Target(pdf_urls[k]) \notin DOMAIN fs0
          /\ NoCollision(pdf_urls[k])
          /\ Len(ReqsFor(pdf_urls[k])) = 1

\* C4: when main has returned, each scanned file is gone exactly when the
\* validator called it corrupt, which it does exactly for a parse error or zero
\* pages; each file it called valid is still there with the bytes it had.
C4_CleanupDeletesExactlyCorrupt ==
    pc = "done" =>
        /\ Len(verdict) = Len(files)
        /\ \A k \in DOMAIN files :
              LET f == files[k]
              IN  /\ verdict[k] = ~Corrupt(fs_scan[f])
                  /\ f \notin DOMAIN fs <=> ~verdict[k]
                  /\ verdict[k] => fs[f] = fs_scan[f]

\* a run in which one scanned file was deleted and another kept
C4_Witness ==
    /\ pc = "done"
    /\ \E k \in DOMAIN files : ~verdict[k] /\ files[k] \notin DOMAIN fs
    /\ \E k \in DOMAIN files : verdict[k] /\ files[k] \in DOMAIN fs

\* C5 as stated: url_to_filename(u) matches ^[a-z0-9_-]+\.pdf$ for every u.
C5_Original == pc \in {"san_once", "san_twice"} => SafeName(filename)

\* C6 as stated: url_to_filename(url_to_filename(u)) = url_to_filename(u).
C6_Original == pc = "san_twice" => filename2 = filename

\* C7 as stated: the list returned is exactly the substrings of the text that
\* match the pattern at a word boundary, each returned once.
C7_Original ==
    pc = "main_loop" =>
        /\ Len(spans) = Cardinality(PdfUrlsAt(text))
        /\ {spans[k] : k \in DOMAIN spans} = PdfUrlsAt(text)

\* C7 amended: the list holds the non-overlapping matches of a left-to-right
\* scan, in text order, duplicates kept: each element is a substring matching
\* the pattern at a word boundary and the shortest such from its start, the
\* elements do not overlap, and every matching substring of the text starts
\* inside an element (or is one), so that only a match overlapping an earlier
\* element, or a longer match from the same start, is left out.
C7_LeftmostShortestMatches ==
    pc = "main_loop" =>
        /\ Len(pdf_urls) = Len(spans)
        /\ \A k \in DOMAIN spans :
              /\ pdf_urls[k] = Slice(text, spans[k][1], spans[k][2])
              /\ spans[k] \in PdfUrlsAt(text)
              /\ \A ij \in PdfUrlsAt(text) : ij[1] = spans[k][1] => ij[2] >= spans[k][2]
              /\ k > 1 => spans[k - 1][2] < spans[k][1]
        /\ \A ij \in PdfUrlsAt(text) :
              \E k \in DOMAIN spans : spans[k][1] <= ij[1] /\ ij[1] <= spans[k][2]

\* the same URL was found twice and returned twice
C7_Witness ==
    /\ pc = "main_loop"
    /\ Len(pdf_urls) = 2
    /\ pdf_urls[1] = pdf_urls[2]

\* C8: the uppercase notice was reported for a processed file exactly when its
\* base name holds an uppercase letter, whatever the verdict; and between two
\* files the disk holds exactly the scanned files not found invalid, unchanged,
\* so that reporting changed nothing.
C8_UppercaseNotice ==
    AfterLoop =>
        /\ \A k \in 1..fidx : files[k] \in notices <=> BaseHasUpper(files[k])
        /\ notices \subseteq {files[k] : k \in 1..fidx}
        /\ pc # "main_upper" =>
              /\ DOMAIN fs = DOMAIN fs_scan \ {files[k] : k \in {n \in 1..fidx : ~verdict[n]}}
              /\ \A f \in DOMAIN fs : fs[f] = fs_scan[f]

\* a deleted file was reported and a kept file was not
C8_Witness ==
    /\ pc = "done"
    /\ \E k \in DOMAIN files : files[k] \in notices /\ ~verdict[k]
    /\ \E k \in DOMAIN files : files[k] \notin notices /\ verdict[k]

C10_DownloadOrder ==
    /\ Len(calls) <= Len(pdf_urls)
    /\ \A k \in DOMAIN calls : calls[k] = pdf_urls[k]
    /\ returned = IF InCall THEN Len(calls) - 1 ELSE Len(calls)
    /\ AfterLoop => Len(calls) = Len(pdf_urls)

\* two different URLs were downloaded one after the other
C10_Witness ==
    /\ pc = "done"
    /\ Len(calls) = 2
    /\ calls[1] # calls[2]
    /\ returned = 2

=============================================================================
